---- MODULE Spec2Model ----
(***************************************************************************)
(* Model of markdownrender: the flow-document (Word) line scanner and its  *)
(* inline tokenizer, the spreadsheet table extractor and sheet writer, the *)
(* HTTP render routes, the Markdown parser wrapper, the diagram resolvers  *)
(* and the command line.  A line of text is a sequence of one-character    *)
(* strings.                                                                *)
(***************************************************************************)
EXTENDS Integers, Sequences, FiniteSets, TLC

VARIABLES
    \* ---- WordRenderer._convert_markdown_to_docx (renderers.py:257-358)
    lines,               \* markdown_text.split("\n")
    i,                   \* loop index, 1-based here (Python's i + 1)
    in_code_block,
    code_block_content,  \* buffered code lines, each [text, line]
    in_table,
    table_rows,          \* buffered rows, each [cells, line]
    doc,                 \* the nodes added to the Document, in order
    pc,                  \* "docx" | "xlsx" | "sheet" | "done" (position) or "off"
    \* ---- ExcelRenderer._extract_tables (renderers.py:478-509)
    ex_i,                \* position of `for line in lines`
    ex_in_table,
    current_table,
    tables,
    \* ---- ExcelRenderer.render (renderers.py:411-466)
    ws,                  \* the worksheet: [title, cells, widths]
    \* ---- the HTTP routes of create_app (api.py:28-265)
    req,                 \* the request being answered: [route, data]
    resp,                \* the response the route handler returned
    constructed,         \* the objects constructed while handling req
    \* ---- MarkdownParser (parser.py:169-209)
    md,                  \* self._md: the state of the markdown.Markdown instance
    last_source,         \* the argument of the last parse call
    earlier,             \* heading texts of the documents parsed before the last
    parses,              \* number of parse calls so far
    \* ---- WordRenderer._add_formatted_text (renderers.py:386-402)
    tk_text,             \* the paragraph line
    tk_runs,             \* the runs added to the paragraph, each [text, emphasis]
    tk_pc,               \* "start" | "done", or "off"
    \* ---- PlantUMLPreprocessor._encode64 (parser.py:118-141)
    enc_data,            \* the bytes to encode
    enc_out,             \* the encoded string, a sequence of characters
    enc_pc,              \* "start" | "done", or "off"
    \* ---- MermaidPreprocessor._render_mermaid (parser.py:33-77)
    mm_code,             \* the text between the fences of the mermaid block
    mm_files,            \* the temporary files that exist: "input", "output"
    mm_tool,             \* how the run of mmdc ended
    mm_result,           \* what _render_mermaid gave its caller
    mm_pc,               \* "start" | "run" | "ran" | "done", or "off"
    \* ---- the command line: main, render_file, start_server (cli.py:13-139)
    cli_args,            \* the parsed arguments and the files they name
    cli_out,             \* the output file: "absent" | "old" | "partial" | a format
    cli_exit,            \* the exit status of the process, -1 while it runs
    cli_stdout,          \* the lines printed
    cli_stderr,          \* the lines printed to the error stream
    cli_raised,          \* the step of render_file that raised, or "none"
    cli_pc               \* "main" | "read" | "render" | "write" | "serving" | "exited"

scanVars == <<lines, i, in_code_block, code_block_content, in_table, table_rows,
              doc, pc, ex_i, ex_in_table, current_table, tables, ws>>

apiVars == <<req, resp, constructed>>

parserVars == <<md, last_source, earlier, parses>>

inlineVars == <<tk_text, tk_runs, tk_pc>>

\* The state of the parts added to the model after the scanners, the routes
\* and the parser.
encVars == <<enc_data, enc_out, enc_pc>>

mermaidVars == <<mm_code, mm_files, mm_tool, mm_result, mm_pc>>

cliVars == <<cli_args, cli_out, cli_exit, cli_stdout, cli_stderr, cli_raised, cli_pc>>

extVars == <<inlineVars, encVars, mermaidVars, cliVars>>

vars == <<scanVars, apiVars, parserVars, extVars>>

(***************************************************************************)
(* Bounds of the model.                                                    *)
(***************************************************************************)
MaxLines == 4
MaxBlocks == 2
MaxParses == 3

(***************************************************************************)
(* String helpers (Python str methods, computed character by character).   *)
(***************************************************************************)
Whitespace == {" ", "\t"}

RECURSIVE lstrip(_)
lstrip(s) ==
    IF s # <<>> /\ Head(s) \in Whitespace THEN lstrip(Tail(s)) ELSE s

RECURSIVE rstrip(_)
rstrip(s) ==
    IF s # <<>> /\ s[Len(s)] \in Whitespace
    THEN rstrip(SubSeq(s, 1, Len(s) - 1))
    ELSE s

strip(s) == rstrip(lstrip(s))

startswith(s, p) == Len(s) >= Len(p) /\ SubSeq(s, 1, Len(p)) = p

contains(s, c) == \E k \in 1..Len(s) : s[k] = c

IndexOf(s, c) == CHOOSE k \in 1..Len(s) : s[k] = c /\ \A m \in 1..(k - 1) : s[m] # c

RECURSIVE split(_, _)
split(s, c) ==
    IF ~contains(s, c)
    THEN <<s>>
    ELSE LET k == IndexOf(s, c)
         IN  <<SubSeq(s, 1, k - 1)>> \o split(SubSeq(s, k + 1, Len(s)), c)

RECURSIVE join(_, _)
join(parts, sep) ==
    IF parts = <<>> THEN <<>>
    ELSE IF Len(parts) = 1 THEN parts[1]
    ELSE parts[1] \o sep \o join(Tail(parts), sep)

\* Number of leading characters of s that belong to the set cs.
RECURSIVE LeadCount(_, _)
LeadCount(s, cs) ==
    IF s # <<>> /\ Head(s) \in cs THEN 1 + LeadCount(Tail(s), cs) ELSE 0

DropFirst(s, n) == SubSeq(s, n + 1, Len(s))

(***************************************************************************)
(* The regular expressions of the scanner.                                 *)
(***************************************************************************)
\* The backquote character is written BQ: the lexer accepts no backquote in a string.
BQ == "BQ"

FENCE == <<BQ, BQ, BQ>>

\* line.strip().startswith(FENCE)
is_fence(line) == startswith(strip(line), FENCE)

\* "|" in line
has_pipe(line) == contains(line, "|")

SepChars == Whitespace \cup {"-", ":", "|"}

\* re.match(r"^\|[\s\-:|]+\|$", line.strip())
is_separator_row(line) ==
    LET s == strip(line)
    IN  /\ Len(s) >= 3
        /\ s[1] = "|"
        /\ s[Len(s)] = "|"
        /\ \A k \in 2..(Len(s) - 1) : s[k] \in SepChars

\* [cell.strip() for cell in line.split("|")[1:-1]]
row_cells(line) ==
    LET parts == split(line, "|")
        inner == SubSeq(parts, 2, Len(parts) - 1)
    IN  [k \in 1..Len(inner) |-> strip(inner[k])]

NoMatch == [ok |-> FALSE, text |-> <<>>]

\* The tail `\s+(.+)$` of the heading and list patterns, matched against rest:
\* greedy whitespace, which gives back one character when nothing follows it.
space_then_text(rest) ==
    LET w == LeadCount(rest, Whitespace)
    IN  IF w = 0 THEN NoMatch
        ELSE IF Len(rest) > w THEN [ok |-> TRUE, text |-> DropFirst(rest, w)]
        ELSE IF w >= 2 THEN [ok |-> TRUE, text |-> <<rest[w]>>]
        ELSE NoMatch

\* heading_match without the upper limit on the number of "#"
heading_match_any_level(line) ==
    LET h == LeadCount(line, {"#"})
        m == space_then_text(DropFirst(line, h))
    IN  IF h >= 1 /\ m.ok
        THEN [ok |-> TRUE, level |-> h, text |-> m.text]
        ELSE [ok |-> FALSE, level |-> 0, text |-> <<>>]

\* re.match(r"^(#{1,6})\s+(.+)$", line): [ok, level, text]
heading_match(line) ==
    LET h == LeadCount(line, {"#"})
        m == space_then_text(DropFirst(line, h))
    IN  IF h >= 1 /\ h <= 6 /\ m.ok
        THEN [ok |-> TRUE, level |-> h, text |-> m.text]
        ELSE [ok |-> FALSE, level |-> 0, text |-> <<>>]

\* re.match(r"^[-*_]{3,}$", line.strip())
is_rule(line) ==
    LET s == strip(line)
    IN  Len(s) >= 3 /\ \A k \in 1..Len(s) : s[k] \in {"-", "*", "_"}

\* line.strip().startswith(">")
is_quote(line) == startswith(strip(line), <<">">>)

\* re.match(r"^(\s*)[-*+]\s+(.+)$", line)
list_match(line) ==
    LET rest == DropFirst(line, LeadCount(line, Whitespace))
    IN  IF rest # <<>> /\ Head(rest) \in {"-", "*", "+"}
        THEN space_then_text(Tail(rest))
        ELSE NoMatch

Digits == {"0", "1", "2", "3", "4", "5", "6", "7", "8", "9"}

\* re.match(r"^(\s*)\d+\.\s+(.+)$", line)
ordered_match(line) ==
    LET rest == DropFirst(line, LeadCount(line, Whitespace))
        d    == LeadCount(rest, Digits)
        tl   == DropFirst(rest, d)
    IN  IF d >= 1 /\ tl # <<>> /\ Head(tl) = "."
        THEN space_then_text(Tail(tl))
        ELSE NoMatch

(***************************************************************************)
(* Document nodes.  A row is [cells, line] and a buffered code line is     *)
(* [text, line]: `line' is the index of the source line it was read from,  *)
(* and `src' the indices of the source lines a node was built from;        *)
(* `runs' are the runs of a paragraph.                                      *)
(***************************************************************************)
Node(kind, level, text, rows, src) ==
    [kind |-> kind, level |-> level, text |-> text, rows |-> rows, src |-> src,
     runs |-> <<>>]

NEWLINE == <<"\n">>

\* WordRenderer._add_code_block, called with "\n".join(code_block_content)
add_code_block(d, content) ==
    Append(d, Node("code", 0,
                   join([k \in 1..Len(content) |-> content[k].text], NEWLINE),
                   <<>>,
                   [k \in 1..Len(content) |-> content[k].line]))

\* WordRenderer._add_table: nothing is added for an empty list of rows
add_table(d, rows) ==
    IF rows = <<>> THEN d
    ELSE Append(d, Node("table", 0, <<>>, rows,
                        [k \in 1..Len(rows) |-> rows[k].line]))

\* Branch with the table test moved before the in-code test.
Branch_table_first(line, in_code, in_tbl) ==
    IF is_fence(line) THEN "fence"
    ELSE IF has_pipe(line) \/ in_tbl THEN "table"
    ELSE IF in_code THEN "code"
    ELSE "block"

\* Which part of the loop body handles the line: the order of the tests.
Branch(line, in_code, in_tbl) ==
    IF is_fence(line) THEN "fence"
    ELSE IF in_code THEN "code"
    ELSE IF has_pipe(line) \/ in_tbl THEN "table"
    ELSE "block"

\* word_table_line without the separator test.
word_table_line_nosep(rows, line, idx) ==
    LET cells == row_cells(line)
    IN  IF cells # <<>>
        THEN Append(rows, [cells |-> cells, line |-> idx])
        ELSE rows

\* The rows after a line containing "|" was read while in table mode.
word_table_line(rows, line, idx) ==
    IF ~is_separator_row(line)
    THEN LET cells == row_cells(line)
         IN  IF cells # <<>>
             THEN Append(rows, [cells |-> cells, line |-> idx])
             ELSE rows
    ELSE rows

(***************************************************************************)
(* WordRenderer._add_formatted_text (renderers.py:386-402): the runs of a  *)
(* paragraph, a pure function of its line.                                 *)
(***************************************************************************)
endswith(s, p) == Len(s) >= Len(p) /\ SubSeq(s, Len(s) - Len(p) + 1, Len(s)) = p

\* s[a:b] of Python for 0 <= a and b < 0 written as the count cut at each end
Slice(s, a, b) == IF Len(s) - b >= a + 1 THEN SubSeq(s, a + 1, Len(s) - b) ELSE <<>>

\* Length of the match of d [^c]+ d at position p of s, 0 when there is none;
\* d is the delimiter, a sequence of the character c.
span_at(s, p, d, c) ==
    IF ~startswith(DropFirst(s, p - 1), d) THEN 0
    ELSE LET inner == DropFirst(s, p - 1 + Len(d))
             n     == LeadCount(inner, {x \in {inner[k] : k \in 1..Len(inner)} : x # c})
         IN  IF n >= 1 /\ startswith(DropFirst(inner, n), d)
             THEN n + 2 * Len(d)
             ELSE 0

\* The alternation \*\*[^*]+\*\* | \*[^*]+\* | `[^`]+` at position p: first
\* alternative that matches.
match_at(s, p) ==
    IF span_at(s, p, <<"*", "*">>, "*") > 0 THEN span_at(s, p, <<"*", "*">>, "*")
    ELSE IF span_at(s, p, <<"*">>, "*") > 0 THEN span_at(s, p, <<"*">>, "*")
    ELSE span_at(s, p, <<BQ>>, BQ)

\* re.split(r"(\*\*[^*]+\*\*|\*[^*]+\*|`[^`]+`)", text)
RECURSIVE re_split(_)
re_split(s) ==
    LET hits == {p \in 1..Len(s) : match_at(s, p) > 0}
    IN  IF hits = {} THEN <<s>>
        ELSE LET p == CHOOSE x \in hits : \A y \in hits : x <= y
                 n == match_at(s, p)
             IN  <<SubSeq(s, 1, p - 1), SubSeq(s, p, p + n - 1)>>
                     \o re_split(DropFirst(s, p + n - 1))

Run(text, emphasis) == [text |-> text, emphasis |-> emphasis]

\* part_run with the italic test before the bold test
part_run_italic_first(part) ==
    IF startswith(part, <<"*">>) /\ endswith(part, <<"*">>)
    THEN Run(Slice(part, 1, 1), "italic")
    ELSE IF startswith(part, <<"*", "*">>) /\ endswith(part, <<"*", "*">>)
    THEN Run(Slice(part, 2, 2), "bold")
    ELSE IF startswith(part, <<BQ>>) /\ endswith(part, <<BQ>>)
    THEN Run(Slice(part, 1, 1), "code")
    ELSE Run(part, "none")

\* lines 392-402: the run one part gives
part_run(part) ==
    IF startswith(part, <<"*", "*">>) /\ endswith(part, <<"*", "*">>)
    THEN Run(Slice(part, 2, 2), "bold")
    ELSE IF startswith(part, <<"*">>) /\ endswith(part, <<"*">>)
    THEN Run(Slice(part, 1, 1), "italic")
    ELSE IF startswith(part, <<BQ>>) /\ endswith(part, <<BQ>>)
    THEN Run(Slice(part, 1, 1), "code")
    ELSE Run(part, "none")

\* WordRenderer._add_formatted_text: the runs added, in order
add_formatted_text(text) ==
    LET parts == re_split(text)
    IN  [k \in 1..Len(parts) |-> part_run(parts[k])]

\* block_nodes with the paragraph test first.
block_nodes_paragraph_first(line, idx) ==
    IF strip(line) # <<>>
    THEN <<[Node("paragraph", 0, line, <<>>, <<idx>>)
               EXCEPT !.runs = add_formatted_text(line)]>>
    ELSE <<>>

\* The nodes a line outside code and table modes adds: first match wins.
block_nodes(line, idx) ==
    LET hm == heading_match(line)
        lm == list_match(line)
        om == ordered_match(line)
    IN  IF hm.ok THEN <<Node("heading", hm.level, hm.text, <<>>, <<idx>>)>>
        ELSE IF is_rule(line) THEN <<Node("rule", 0, <<>>, <<>>, <<idx>>)>>
        ELSE IF is_quote(line)
             THEN <<Node("quote", 0, strip(DropFirst(strip(line), 1)), <<>>, <<idx>>)>>
        ELSE IF lm.ok THEN <<Node("bullet", 0, lm.text, <<>>, <<idx>>)>>
        ELSE IF om.ok THEN <<Node("number", 0, om.text, <<>>, <<idx>>)>>
        ELSE IF strip(line) # <<>>
             THEN <<[Node("paragraph", 0, line, <<>>, <<idx>>)
                        EXCEPT !.runs = add_formatted_text(line)]>>
        ELSE <<>>

(***************************************************************************)
(* WordRenderer._convert_markdown_to_docx: one action per loop iteration,  *)
(* by the part of the loop body that handles the line.                     *)
(***************************************************************************)
InLoop == pc = "docx" /\ i <= Len(lines)

exVars == <<ex_i, ex_in_table, current_table, tables, ws>>

\* lines 270-281: a fence line closes or opens a code block
FenceStep ==
    /\ InLoop
    /\ Branch(lines[i], in_code_block, in_table) = "fence"
    /\ IF in_code_block
       THEN /\ doc' = add_code_block(doc, code_block_content)
            /\ code_block_content' = <<>>
            /\ in_code_block' = FALSE
       ELSE /\ in_code_block' = TRUE
            /\ UNCHANGED <<doc, code_block_content>>
    /\ i' = i + 1
    /\ UNCHANGED <<lines, in_table, table_rows, pc, exVars, apiVars, parserVars, extVars>>

\* lines 283-286: inside a code block the line is buffered
CodeStep ==
    /\ InLoop
    /\ Branch(lines[i], in_code_block, in_table) = "code"
    /\ code_block_content' = Append(code_block_content, [text |-> lines[i], line |-> i])
    /\ i' = i + 1
    /\ UNCHANGED <<lines, in_code_block, in_table, table_rows, doc, pc, exVars, apiVars, parserVars, extVars>>

\* lines 289-299, 307-308: a line with "|" opens the table if needed and is read
TableRowStep ==
    /\ InLoop
    /\ Branch(lines[i], in_code_block, in_table) = "table"
    /\ has_pipe(lines[i])
    /\ in_table' = TRUE
    /\ table_rows' = word_table_line(IF in_table THEN table_rows ELSE <<>>, lines[i], i)
    /\ i' = i + 1
    /\ UNCHANGED <<lines, in_code_block, code_block_content, doc, pc, exVars, apiVars, parserVars, extVars>>

\* lines 300-306 without the reset of in_table
TableEndStep_stays_in_table ==
    /\ InLoop
    /\ Branch(lines[i], in_code_block, in_table) = "table"
    /\ ~has_pipe(lines[i])
    /\ doc' = add_table(doc, table_rows)
    /\ table_rows' = <<>>
    /\ UNCHANGED <<lines, i, in_code_block, code_block_content, in_table, pc, exVars, apiVars,
                   parserVars, extVars>>

\* lines 300-306: a line without "|" ends the table; the line is not consumed
TableEndStep ==
    /\ InLoop
    /\ Branch(lines[i], in_code_block, in_table) = "table"
    /\ ~has_pipe(lines[i])
    /\ doc' = add_table(doc, table_rows)
    /\ in_table' = FALSE
    /\ table_rows' = <<>>
    /\ UNCHANGED <<lines, i, in_code_block, code_block_content, pc, exVars, apiVars, parserVars, extVars>>

\* lines 310-354: heading, rule, quote, list item, paragraph or blank
BlockStep ==
    /\ InLoop
    /\ Branch(lines[i], in_code_block, in_table) = "block"
    /\ doc' = doc \o block_nodes(lines[i], i)
    /\ i' = i + 1
    /\ UNCHANGED <<lines, in_code_block, code_block_content, in_table, table_rows,
                   pc, exVars, apiVars, parserVars, extVars>>

\* lines 356-358: after the loop, a table still being read is added
WordFinish ==
    /\ pc = "docx"
    /\ i > Len(lines)
    /\ doc' = IF in_table /\ table_rows # <<>> THEN add_table(doc, table_rows) ELSE doc
    /\ pc' = "xlsx"
    /\ UNCHANGED <<lines, i, in_code_block, code_block_content, in_table, table_rows,
                   exVars, apiVars, parserVars, extVars>>

(***************************************************************************)
(* ExcelRenderer._extract_tables: one action per iteration of the for loop *)
(***************************************************************************)
wordVars == <<i, in_code_block, code_block_content, in_table, table_rows, doc>>

\* excel_table_line without the test for empty cells.
excel_table_line_keep_empty(rows, line, idx) ==
    IF is_separator_row(line) THEN rows
    ELSE Append(rows, [cells |-> row_cells(line), line |-> idx])

\* lines 492-498: the table after a line containing "|" was read
excel_table_line(rows, line, idx) ==
    IF is_separator_row(line) THEN rows
    ELSE LET cells == row_cells(line)
         IN  IF cells # <<>>
             THEN Append(rows, [cells |-> cells, line |-> idx])
             ELSE rows

\* lines 486-503
ExtractStep ==
    /\ pc = "xlsx"
    /\ ex_i <= Len(lines)
    /\ IF has_pipe(lines[ex_i])
       THEN /\ ex_in_table' = TRUE
            /\ current_table' =
                   excel_table_line(IF ex_in_table THEN current_table ELSE <<>>,
                                    lines[ex_i], ex_i)
            /\ tables' = tables
       ELSE /\ tables' = IF ex_in_table /\ current_table # <<>>
                         THEN Append(tables, current_table)
                         ELSE tables
            /\ ex_in_table' = FALSE
            /\ current_table' = <<>>
    /\ ex_i' = ex_i + 1
    /\ UNCHANGED <<lines, pc, ws, wordVars, apiVars, parserVars, extVars>>

\* lines 505-509
ExtractFinish ==
    /\ pc = "xlsx"
    /\ ex_i > Len(lines)
    /\ tables' = IF ex_in_table /\ current_table # <<>>
                 THEN Append(tables, current_table)
                 ELSE tables
    /\ pc' = "sheet"
    /\ UNCHANGED <<lines, ex_i, ex_in_table, current_table, ws, wordVars, apiVars, parserVars,
                   extVars>>

(***************************************************************************)
(* ExcelRenderer.render (renderers.py:411-466) after _extract_tables       *)
(* returned: the cells of the worksheet and the column widths.             *)
(***************************************************************************)
\* The default of the title parameter (line 414)
Title == <<"D", "o", "c", "u", "m", "e", "n", "t">>

\* s[:n]
Take(s, n) == SubSeq(s, 1, IF Len(s) < n THEN Len(s) ELSE n)

Max(S) == CHOOSE x \in S : \A y \in S : y <= x

Cell(value, bold, size, horizontal) ==
    [value |-> value, bold |-> bold, size |-> size, horizontal |-> horizontal]

\* A worksheet of a new Workbook: no cell, no column width set
EmptySheet == [title |-> <<>>, cells |-> <<>>, widths |-> <<>>]

\* lines 436-443 with every row formatted as the header row is
table_cell_all_header(value, row_idx) == Cell(value, TRUE, 11, "center")

\* lines 436-443: the cell written for row row_idx (from 0) of a table
table_cell(value, row_idx) ==
    IF row_idx = 0
    THEN Cell(value, TRUE, 11, "center")
    ELSE Cell(value, FALSE, 11, "general")

\* lines 430-445: current_row when the table of index t (from 1) is written
RECURSIVE start_row(_, _)
start_row(tabs, t) ==
    IF t = 1 THEN 1
    ELSE start_row(tabs, t - 1) + Len(tabs[t - 1]) + 2

\* lines 429-445 without the two rows left free between tables
table_cells_no_gap(tabs) ==
    LET Pos == {x \in (1..Len(tabs)) \X (1..Len(lines)) \X (1..Max({Len(lines[k]) : k \in 1..Len(lines)})) :
                    /\ x[2] <= Len(tabs[x[1]])
                    /\ x[3] <= Len(tabs[x[1]][x[2]].cells)}
        at(x) == <<start_row(tabs, x[1]) - 2 * (x[1] - 1) + x[2] - 1, x[3]>>
    IN  [p \in {at(x) : x \in Pos} |->
            LET x == CHOOSE y \in Pos : at(y) = p
            IN  table_cell(tabs[x[1]][x[2]].cells[x[3]], x[2] - 1)]

\* lines 429-445: the cells the tables are written to
table_cells(tabs) ==
    LET Pos == {x \in (1..Len(tabs)) \X (1..Len(lines)) \X (1..Max({Len(lines[k]) : k \in 1..Len(lines)})) :
                    /\ x[2] <= Len(tabs[x[1]])
                    /\ x[3] <= Len(tabs[x[1]][x[2]].cells)}
        at(x) == <<start_row(tabs, x[1]) + x[2] - 1, x[3]>>
    IN  [p \in {at(x) : x \in Pos} |->
            LET x == CHOOSE y \in Pos : at(y) = p
            IN  table_cell(tabs[x[1]][x[2]].cells[x[3]], x[2] - 1)]

\* line 427: markdown_text.strip().split("\n") on the lines of the text; the
\* line break is white space for strip
RECURSIVE drop_blank_head(_)
drop_blank_head(ls) ==
    IF ls # <<>> /\ strip(ls[1]) = <<>> THEN drop_blank_head(Tail(ls)) ELSE ls

RECURSIVE drop_blank_tail(_)
drop_blank_tail(ls) ==
    IF ls # <<>> /\ strip(ls[Len(ls)]) = <<>>
    THEN drop_blank_tail(SubSeq(ls, 1, Len(ls) - 1))
    ELSE ls

strip_split(ls) ==
    LET body == drop_blank_tail(drop_blank_head(ls))
    IN  IF body = <<>> THEN << <<>> >>
        ELSE [k \in 1..Len(body) |->
                 LET a == IF k = 1 THEN lstrip(body[k]) ELSE body[k]
                 IN  IF k = Len(body) THEN rstrip(a) ELSE a]

\* lines 423-428 with the lines written from row 2
fallback_cells_from_row_2(title, ls) ==
    LET content == strip_split(ls)
    IN  [p \in {<<1, 1>>} \cup {<<k + 1, 1>> : k \in 1..Len(content)} |->
            IF p = <<1, 1>>
            THEN Cell(title, TRUE, 14, "general")
            ELSE Cell(content[p[1] - 1], FALSE, 11, "general")]

\* lines 423-428: the sheet of a text without tables
fallback_cells(title, ls) ==
    LET content == strip_split(ls)
    IN  [p \in {<<1, 1>>} \cup {<<k + 2, 1>> : k \in 1..Len(content)} |->
            IF p = <<1, 1>>
            THEN Cell(title, TRUE, 14, "general")
            ELSE Cell(content[p[1] - 2], FALSE, 11, "general")]

\* lines 447-458: the width of every column of the sheet
column_widths(cells) ==
    LET cols == {p[2] : p \in DOMAIN cells}
    IN  [c \in 1..Max(cols \cup {0}) |->
            LET longest == Max({0} \cup {Len(cells[p].value) : p \in {q \in DOMAIN cells : q[2] = c}})
            IN  IF longest + 2 < 50 THEN longest + 2 ELSE 50]

\* lines 417-458
FillSheet ==
    /\ pc = "sheet"
    /\ LET cells == IF tables = <<>>
                    THEN fallback_cells(Title, lines)
                    ELSE table_cells(tables)
       IN  ws' = [title |-> Take(Title, 31), cells |-> cells, widths |-> column_widths(cells)]
    /\ pc' = "done"
    /\ UNCHANGED <<lines, ex_i, ex_in_table, current_table, tables, wordVars, apiVars,
                   parserVars, extVars>>

None == [none |-> TRUE]

\* The routes and the parser when a specification does not exercise them.
ApiIdle == req = None /\ resp = None /\ constructed = {}

ParserIdle == md = [toc |-> <<>>] /\ last_source = <<>> /\ earlier = {} /\ parses = 0

InlineIdle == tk_text = <<>> /\ tk_runs = <<>> /\ tk_pc = "off"

EncIdle == enc_data = <<>> /\ enc_out = <<>> /\ enc_pc = "off"

MermaidIdle ==
    /\ mm_code = <<>>
    /\ mm_files = {}
    /\ mm_tool = [outcome |-> "none"]
    /\ mm_result = [kind |-> "none"]
    /\ mm_pc = "off"

CliIdle ==
    /\ cli_args = [command |-> "off"]
    /\ cli_out = "absent"
    /\ cli_exit = -1
    /\ cli_stdout = <<>>
    /\ cli_stderr = <<>>
    /\ cli_raised = "none"
    /\ cli_pc = "off"

ExtIdle == InlineIdle /\ EncIdle /\ MermaidIdle /\ CliIdle

ScanIdle ==
    /\ lines = <<>> /\ i = 1 /\ in_code_block = FALSE /\ code_block_content = <<>>
    /\ in_table = FALSE /\ table_rows = <<>> /\ doc = <<>> /\ pc = "off"
    /\ ex_i = 1 /\ ex_in_table = FALSE /\ current_table = <<>> /\ tables = <<>>
    /\ ws = EmptySheet

(***************************************************************************)
(* The inputs of the scanner model: documents of at most MaxLines lines.   *)
(***************************************************************************)
L_row   == <<"|", " ", "a", "|", "b", " ", "|">>
L_sep   == <<"|", ":", "-", "|", " ">>
L_bare  == <<"a", "|", "b">>
L_blank == <<>>
L_text  == <<"x">>
L_fence == FENCE
L_head  == <<"#", " ", "a">>
L_pipes == <<"|", "|">>

ScanLines == {L_row, L_sep, L_bare, L_blank, L_text, L_fence, L_head, L_pipes}

\* split("\n") never returns an empty list
Documents(LineSet) == UNION {[1..n -> LineSet] : n \in 1..MaxLines}

ScanInit ==
    /\ lines \in Documents(ScanLines)
    /\ i = 1
    /\ in_code_block = FALSE
    /\ code_block_content = <<>>
    /\ in_table = FALSE
    /\ table_rows = <<>>
    /\ doc = <<>>
    /\ pc = "docx"
    /\ ex_i = 1
    /\ ex_in_table = FALSE
    /\ current_table = <<>>
    /\ tables = <<>>
    /\ ws = EmptySheet
    /\ ApiIdle
    /\ ParserIdle
    /\ ExtIdle

ScanNext ==
    \/ FenceStep
    \/ CodeStep
    \/ TableRowStep
    \/ TableEndStep
    \/ BlockStep
    \/ WordFinish
    \/ ExtractStep
    \/ ExtractFinish
    \/ FillSheet

SpecScan == ScanInit /\ [][ScanNext]_vars

(***************************************************************************)
(* Notions the claims about the scanners are stated in, defined on the     *)
(* input alone.                                                            *)
(***************************************************************************)
NLines == Len(lines)

PipeLine(j) == \E k \in 1..Len(lines[j]) : lines[j][k] = "|"

PipeCount(l) == Cardinality({k \in 1..Len(l) : l[k] = "|"})

\* "|" first and last, and only dashes, colons, whitespace and pipes between
SeparatorLine(l) ==
    LET s == strip(l)
    IN  /\ Len(s) >= 3
        /\ s[1] = "|" /\ s[Len(s)] = "|"
        /\ \A k \in 2..(Len(s) - 1) : s[k] \in {"-", ":", "|", " ", "\t"}

FenceLine(l) == LET s == strip(l) IN Len(s) >= 3 /\ \A k \in 1..3 : s[k] = BQ

BlankLine(l) == strip(l) = <<>>

TableOnlyInput ==
    \A j \in 1..NLines : (PipeLine(j) /\ ~FenceLine(lines[j])) \/ BlankLine(lines[j])

\* The maximal runs of consecutive lines containing "|", by first line.
RunStarts == {a \in 1..NLines : PipeLine(a) /\ (a = 1 \/ ~PipeLine(a - 1))}

RunEnd(a) ==
    CHOOSE b \in a..NLines :
        /\ \A m \in a..b : PipeLine(m)
        /\ (b = NLines \/ ~PipeLine(b + 1))

RECURSIVE SortedSeq(_)
SortedSeq(S) ==
    IF S = {} THEN <<>>
    ELSE LET m == CHOOSE x \in S : \A y \in S : x <= y
         IN  <<m>> \o SortedSeq(S \ {m})

NonSeparatorCount(a) ==
    Cardinality({m \in a..RunEnd(a) : ~SeparatorLine(lines[m])})

\* A line gives a row when it is no separator and has cells between two pipes.
YieldLine(l) == ~SeparatorLine(l) /\ PipeCount(l) >= 2

YieldCount(a) == Cardinality({m \in a..RunEnd(a) : YieldLine(lines[m])})

WordTables == SelectSeq(doc, LAMBDA n : n.kind = "table")

WordTableRows == [k \in 1..Len(WordTables) |-> WordTables[k].rows]

RowCountsAre(tbls, starts, Count(_)) ==
    /\ Len(tbls) = Len(starts)
    /\ \A k \in 1..Len(tbls) : Len(tbls[k]) = Count(starts[k])

\* C6 (as stated): for input made only of table lines and blank lines, both
\* scanners emit exactly one table per maximal run of lines containing "|",
\* whose row count is the number of non-separator lines of the run.
C6_OneTablePerRun ==
    (pc = "done" /\ TableOnlyInput) =>
        LET runs == SortedSeq(RunStarts)
        IN  /\ RowCountsAre(WordTableRows, runs, NonSeparatorCount)
            /\ RowCountsAre(tables, runs, NonSeparatorCount)

\* C6 (amended): for such input, both scanners emit exactly one table per
\* maximal run that has at least one line giving a row (a non-separator line
\* with at least two "|"), none for the other runs, and the table's row count
\* is the number of lines of the run that give a row.
C6_OneTablePerProductiveRun ==
    (pc = "done" /\ TableOnlyInput) =>
        LET runs == SortedSeq({a \in RunStarts : YieldCount(a) > 0})
        IN  /\ RowCountsAre(WordTableRows, runs, YieldCount)
            /\ RowCountsAre(tables, runs, YieldCount)

C6_Witness ==
    /\ pc = "done"
    /\ TableOnlyInput
    /\ Len(WordTables) >= 1
    /\ Len(tables) >= 1
    /\ \E a \in RunStarts :
          YieldCount(a) > 0 /\ \E m \in a..RunEnd(a) : SeparatorLine(lines[m])
    /\ \E a \in RunStarts : YieldCount(a) = 0

AllRows ==
    LET flat(tbls) == UNION {{tbls[k][m] : m \in 1..Len(tbls[k])} : k \in 1..Len(tbls)}
    IN  flat(WordTableRows) \cup flat(tables)
        \cup {table_rows[m] : m \in 1..Len(table_rows)}
        \cup {current_table[m] : m \in 1..Len(current_table)}

\* C7: no row of a table emitted or being read by the flow-document scanner
\* or the spreadsheet extractor was read from a separator line, and each
\* scanner moves past every line, so a separator line leaves no data row.
C7_SeparatorNeverARow ==
    /\ \A r \in AllRows : ~SeparatorLine(lines[r.line])
    /\ (pc = "done" => i = NLines + 1 /\ ex_i = NLines + 1)

C7_Witness ==
    /\ pc = "done"
    /\ \E k \in 1..Len(WordTables) :
         \E j \in 1..NLines :
            /\ SeparatorLine(lines[j])
            /\ WordTables[k].src[1] < j
            /\ j < WordTables[k].src[Len(WordTables[k].src)]
    /\ \E k \in 1..Len(tables) :
         \E j \in 1..NLines :
            /\ SeparatorLine(lines[j])
            /\ tables[k][1].line < j
            /\ j < tables[k][Len(tables[k])].line

FencesBefore(j) == {m \in 1..(j - 1) : FenceLine(lines[m])}

\* Line j lies after an opening fence line and not after its closing one.
InsideFence(j) == Cardinality(FencesBefore(j)) % 2 = 1

OpenFence(j) == CHOOSE m \in FencesBefore(j) : \A x \in FencesBefore(j) : x <= m

\* C8: inside a code fence a line that is no fence is appended verbatim to
\* the code buffer and adds no node and no table row; the closing fence adds
\* exactly one code block holding the lines since the opening fence, in order.
C8_CodeFenceBufferOnly ==
    [][(pc = "docx" /\ i <= NLines /\ InsideFence(i)) =>
          IF FenceLine(lines[i])
          THEN LET inside == [k \in 1..(i - 1 - OpenFence(i)) |-> OpenFence(i) + k]
               IN  /\ doc' = Append(doc,
                        Node("code", 0,
                             join([k \in 1..Len(inside) |-> lines[inside[k]]], NEWLINE),
                             <<>>, inside))
                   /\ code_block_content' = <<>>
                   /\ table_rows' = table_rows
          ELSE /\ doc' = doc
               /\ table_rows' = table_rows
               /\ code_block_content' =
                      Append(code_block_content, [text |-> lines[i], line |-> i])
      ]_vars

C8_Witness ==
    \E k \in 1..Len(doc) :
        /\ doc[k].kind = "code"
        /\ \E m \in 1..Len(doc[k].src) : PipeLine(doc[k].src[m])
        /\ \E m \in 1..Len(doc[k].src) : startswith(lines[doc[k].src[m]], <<"#">>)

WordRowGroups ==
    {WordTables[k].src : k \in 1..Len(WordTables)}
        \cup {[m \in 1..Len(table_rows) |-> table_rows[m].line]}

\* C9 (as stated): a table run of the flow-document scanner ends at the
\* first line without "|", whatever that line is: the rows of one table,
\* emitted or being read, never lie on both sides of a line without "|".
C9_TableRunEndsAtNonPipe ==
    \A g \in WordRowGroups :
        \A a, b \in 1..Len(g) :
            \A m \in g[a]..g[b] : PipeLine(m)

CodeNodeLines ==
    UNION {{doc[k].src[m] : m \in 1..Len(doc[k].src)} :
               k \in {x \in 1..Len(doc) : doc[x].kind = "code"}}

TableNodeLines ==
    UNION {{doc[k].src[m] : m \in 1..Len(doc[k].src)} :
               k \in {x \in 1..Len(doc) : doc[x].kind = "table"}}

\* C10 (as stated): once the flow-document scanner has completed, every
\* buffered code line is in a code block of the document and every buffered
\* table row is in a table of the document.
C10_EndOfInputFlush ==
    pc \in {"xlsx", "sheet", "done"} =>
        /\ \A m \in 1..Len(code_block_content) : code_block_content[m].line \in CodeNodeLines
        /\ \A m \in 1..Len(table_rows) : table_rows[m].line \in TableNodeLines

(***************************************************************************)
(* The HTTP render routes (api.py).  A request body is the value of        *)
(* request.get_json(): null, or an object with some of the fields below.   *)
(* Absent fields carry the value Absent.                                   *)
(***************************************************************************)
Absent == [type |-> "absent", val |-> ""]

Str(v) == [type |-> "str", val |-> v]

FormatValues ==
    {Str("html"), Str("pdf"), Str("docx"), Str("xlsx"), Str("HTML"), Str("Docx"),
     Str("invalid"), [type |-> "int", val |-> "5"]}

OptionValues == {[type |-> "dict", val |-> ""], [type |-> "null", val |-> ""]}

Bodies ==
    {[kind |-> "null", has |-> {}, format |-> Absent, options |-> Absent]}
    \cup
    {[kind |-> "object", has |-> h, format |-> f, options |-> o] :
        h \in SUBSET {"markdown", "format", "options", "fragment", "title"},
        f \in FormatValues \cup {Absent},
        o \in OptionValues \cup {Absent}}

\* The body is well-formed: a field carries a value exactly when it is present.
WellFormed(data) ==
    /\ (data.format = Absent) <=> ("format" \notin data.has)
    /\ (data.options = Absent) <=> ("options" \notin data.has)

\* str.lower() on the format strings of the model
lower(v) ==
    CASE v = "HTML" -> "html"
      [] v = "Docx" -> "docx"
      [] OTHER -> v

Formats == {"html", "pdf", "docx", "xlsx"}

Mime(fmt) ==
    CASE fmt = "html" -> "text/html"
      [] fmt = "pdf"  -> "application/pdf"
      [] fmt = "docx" ->
           "application/vnd.openxmlformats-officedocument.wordprocessingml.document"
      [] fmt = "xlsx" ->
           "application/vnd.openxmlformats-officedocument.spreadsheetml.sheet"

\* jsonify({"error": msg}), status
ErrorResponse(status, msg) ==
    [status |-> status, mimetype |-> "application/json", error |-> msg,
     document |-> "", raised |-> FALSE]

\* Response(html, mimetype=...) or send_file(...)
DocumentResponse(fmt) ==
    [status |-> 200, mimetype |-> Mime(fmt), error |-> <<>>, document |-> fmt,
     raised |-> FALSE]

\* An exception that leaves the route handler: the framework answers for it.
Propagated(msg) ==
    [status |-> 500, mimetype |-> "text/html", error |-> msg, document |-> "",
     raised |-> TRUE]

MissingMarkdown == <<"Missing 'markdown' field in request body">>
MissingFormat   == <<"Missing 'format' field in request body">>
Unsupported(fmt) == <<"Unsupported format: ", fmt, ". Supported formats: html, pdf, docx, xlsx">>
UnexpectedKeyword(cls, kw) == <<cls, ".__init__() got an unexpected keyword argument ", kw>>
RenderFailed == <<"exception raised while rendering">>

\* The keyword parameters each constructor accepts.
InitParams(cls) ==
    CASE cls = "MarkdownParser" -> {"plantuml_server"}
      [] cls = "HTMLRenderer"   -> {"parser"}
      [] cls = "PDFRenderer"    -> {"parser"}
      [] cls = "WordRenderer"   -> {"parser"}
      [] cls = "ExcelRenderer"  -> {"parser"}

\* The keyword arguments the routes pass to each constructor.
InitArgs(cls) ==
    CASE cls = "MarkdownParser" -> {"plantuml_server", "mermaid_server"}
      [] cls = "HTMLRenderer"   -> {"parser", "table_style"}
      [] cls = "PDFRenderer"    -> {"parser"}
      [] cls = "WordRenderer"   -> {"parser", "table_style"}
      [] cls = "ExcelRenderer"  -> {"parser"}

RendererOf(fmt) ==
    CASE fmt = "html" -> "HTMLRenderer"
      [] fmt = "pdf"  -> "PDFRenderer"
      [] fmt = "docx" -> "WordRenderer"
      [] fmt = "xlsx" -> "ExcelRenderer"

\* Calling cls(**InitArgs(cls)): the unexpected keyword, if any (TypeError).
BadKeywords(cls) == InitArgs(cls) \ InitParams(cls)

\* The try block of a route: [resp, built].  fails: the renderer raises.
\* dispatch: the format is tested inside the block (the /render route).
try_render(fmt, dispatch, fails) ==
    IF BadKeywords("MarkdownParser") # {}
    THEN [resp  |-> ErrorResponse(500,
                       UnexpectedKeyword("MarkdownParser",
                                         CHOOSE k \in BadKeywords("MarkdownParser") : TRUE)),
          built |-> {}]
    ELSE IF dispatch /\ fmt \notin Formats
    THEN [resp |-> ErrorResponse(400, Unsupported(fmt)), built |-> {"MarkdownParser"}]
    ELSE IF BadKeywords(RendererOf(fmt)) # {}
    THEN [resp  |-> ErrorResponse(500,
                       UnexpectedKeyword(RendererOf(fmt),
                                         CHOOSE k \in BadKeywords(RendererOf(fmt)) : TRUE)),
          built |-> {"MarkdownParser"}]
    ELSE IF fails
    THEN [resp |-> ErrorResponse(500, RenderFailed),
          built |-> {"MarkdownParser", RendererOf(fmt)}]
    ELSE [resp |-> DocumentResponse(fmt), built |-> {"MarkdownParser", RendererOf(fmt)}]

\* not data or "markdown" not in data
lacks_markdown(data) ==
    data.kind = "null" \/ data.has = {} \/ "markdown" \notin data.has

\* The checks of /render with the format test first.
render_missing_format_first(data) ==
    IF data.kind = "object" /\ "format" \notin data.has THEN MissingFormat
    ELSE IF lacks_markdown(data) THEN MissingMarkdown
    ELSE <<>>

\* api.py:197-201: the message of the failed check of /render, <<>> when none
render_missing(data) ==
    IF lacks_markdown(data) THEN MissingMarkdown
    ELSE IF "format" \notin data.has THEN MissingFormat
    ELSE <<>>

\* A route of one format: the check for markdown, then the try block.
format_route(fmt, data, fails) ==
    IF lacks_markdown(data)
    THEN [resp |-> ErrorResponse(400, MissingMarkdown), built |-> {}]
    ELSE try_render(fmt, FALSE, fails)

\* The /render route: the checks, the reads made before the try, the try block.
unified_route(data, fails) ==
    IF render_missing(data) # <<>>
    THEN [resp |-> ErrorResponse(400, render_missing(data)), built |-> {}]
    ELSE IF data.format.type # "str"
    THEN \* data["format"].lower() raises AttributeError before the try
         [resp |-> Propagated(<<"object has no attribute 'lower'">>), built |-> {}]
    ELSE IF data.options.type = "null"
    THEN \* options.get(...) raises AttributeError before the try
         [resp |-> Propagated(<<"'NoneType' object has no attribute 'get'">>),
          built |-> {}]
    ELSE try_render(lower(data.format.val), TRUE, fails)

ApiInputs == {d \in Bodies : WellFormed(d)}

Answer(route, data, out) ==
    /\ req' = [route |-> route, data |-> data]
    /\ resp' = out.resp
    /\ constructed' = out.built

\* api.py:28-70
render_html ==
    /\ \E data \in ApiInputs, fails \in BOOLEAN :
          Answer("/render/html", data, format_route("html", data, fails))
    /\ UNCHANGED <<scanVars, parserVars, extVars>>

\* api.py:72-108
render_pdf ==
    /\ \E data \in ApiInputs, fails \in BOOLEAN :
          Answer("/render/pdf", data, format_route("pdf", data, fails))
    /\ UNCHANGED <<scanVars, parserVars, extVars>>

\* api.py:110-144
render_docx ==
    /\ \E data \in ApiInputs, fails \in BOOLEAN :
          Answer("/render/docx", data, format_route("docx", data, fails))
    /\ UNCHANGED <<scanVars, parserVars, extVars>>

\* api.py:146-177
render_xlsx ==
    /\ \E data \in ApiInputs, fails \in BOOLEAN :
          Answer("/render/xlsx", data, format_route("xlsx", data, fails))
    /\ UNCHANGED <<scanVars, parserVars, extVars>>

\* api.py:179-265
render ==
    /\ \E data \in ApiInputs, fails \in BOOLEAN :
          Answer("/render", data, unified_route(data, fails))
    /\ UNCHANGED <<scanVars, parserVars, extVars>>

ApiInit == ApiIdle /\ ScanIdle /\ ParserIdle /\ ExtIdle

ApiNext == render_html \/ render_pdf \/ render_docx \/ render_xlsx \/ render

SpecApi == ApiInit /\ [][ApiNext]_vars

Answered == req # None /\ resp # None

HasMarkdown == req.data.kind = "object" /\ "markdown" \in req.data.has

\* The format a request asks for: by its route, or by the format field.
Requested ==
    CASE req.route = "/render/html" -> "html"
      [] req.route = "/render/pdf"  -> "pdf"
      [] req.route = "/render/docx" -> "docx"
      [] req.route = "/render/xlsx" -> "xlsx"
      [] OTHER -> IF req.data.format.type = "str" THEN req.data.format.val ELSE "?"

\* C2 (as stated): a request with a markdown string for html, docx or xlsx,
\* by route or by the format field of /render, is answered 200 with the
\* content type of the format, never with an error.
C2_RenderAnswers200 ==
    (Answered /\ HasMarkdown /\ Requested \in {"html", "docx", "xlsx"}) =>
        /\ resp.status = 200
        /\ resp.mimetype = Mime(Requested)
        /\ resp.document = Requested

\* C3 (as stated): /render with markdown and a format string that lowercased
\* is no supported format is answered 400 with an error naming the supported
\* formats, never 500 or 200.
C3_UnsupportedFormat400 ==
    (Answered /\ req.route = "/render" /\ HasMarkdown
        /\ req.data.format.type = "str"
        /\ lower(req.data.format.val) \notin {"html", "pdf", "docx", "xlsx"}) =>
        /\ resp.status = 400
        /\ resp.error = Unsupported(lower(req.data.format.val))

C5_FailuresAnswered500 ==
    (Answered /\ HasMarkdown /\ (req.route = "/render" => "format" \in req.data.has)) =>
        /\ ~resp.raised
        /\ resp.status \in {200, 400, 500}
        /\ resp.status = 500 => (resp.mimetype = "application/json" /\ resp.error # <<>>)

(***************************************************************************)
(* MarkdownParser (parser.py:169-209).  A Markdown source is a sequence of *)
(* blocks, a heading with its text or a paragraph; the blank source has no *)
(* block.  md is the markdown.Markdown instance with the toc extension: of *)
(* its state the model keeps toc, the heading texts of the table of        *)
(* contents in order.                                                      *)
(***************************************************************************)
Heading(t) == [heading |-> TRUE, text |-> t]

Paragraph(t) == [heading |-> FALSE, text |-> t]

Blocks == {Heading("First"), Heading("Second"), Heading("Third"), Paragraph("text")}

Sources == UNION {[1..n -> Blocks] : n \in 0..MaxBlocks}

HeadingTexts(source) ==
    {source[k].text : k \in {x \in 1..Len(source) : source[x].heading}}

\* self._md.reset(): the toc extension clears the table of contents
md_reset(m) == [toc |-> <<>>]

\* self._md.convert(text): a blank source returns at once and runs no
\* processor; otherwise the toc tree processor rebuilds toc from the headings
md_convert(m, source) ==
    IF source = <<>> THEN m
    ELSE LET hs == SelectSeq(source, LAMBDA b : b.heading)
         IN  [toc |-> [k \in 1..Len(hs) |-> hs[k].text]]

\* parse without the reset.
parse_without_reset(m, source) == md_convert(m, source)

\* MarkdownParser.parse: the state of self._md after the call
parse_md(m, source) == md_convert(md_reset(m), source)

\* MarkdownParser.get_toc
get_toc == md.toc

\* MarkdownParser.parse
parse ==
    /\ parses < MaxParses
    /\ \E source \in Sources :
          /\ md' = parse_md(md, source)
          /\ last_source' = source
          /\ earlier' = earlier \cup HeadingTexts(last_source)
    /\ parses' = parses + 1
    /\ UNCHANGED <<scanVars, apiVars, extVars>>

ParserInit == ParserIdle /\ ScanIdle /\ ApiIdle /\ ExtIdle

ParserNext == parse

SpecParser == ParserInit /\ [][ParserNext]_vars

TocTexts == {get_toc[k] : k \in 1..Len(get_toc)}

\* C1: after any sequence of parse calls on one instance, get_toc() holds
\* only headings of the document parsed last; a heading text found only in
\* an earlier document is not in it.
C1_TocOnlyLastDocument ==
    parses > 0 =>
        /\ TocTexts \subseteq HeadingTexts(last_source)
        /\ TocTexts \cap (earlier \ HeadingTexts(last_source)) = {}

C1_Witness ==
    /\ parses >= 2
    /\ "First" \in earlier
    /\ "First" \notin HeadingTexts(last_source)
    /\ get_toc = <<"Second">>

(***************************************************************************)
(* WordRenderer._add_formatted_text (renderers.py:386-402): the inline     *)
(* tokenizer, a pure function of the paragraph line.                       *)
(***************************************************************************)
MaxText == 7

InlineChars == {"*", BQ, "a", " "}

Texts == UNION {[1..n -> InlineChars] : n \in 1..MaxText}

\* The lines _convert_markdown_to_docx passes on: those it adds a paragraph for.
ParagraphLine(t) ==
    /\ ~is_fence(t)
    /\ ~has_pipe(t)
    /\ block_nodes(t, 1) # <<>>
    /\ block_nodes(t, 1)[1].kind = "paragraph"

InlineInit ==
    /\ tk_text \in {t \in Texts : ParagraphLine(t)}
    /\ tk_runs = <<>>
    /\ tk_pc = "start"
    /\ ScanIdle /\ ApiIdle /\ ParserIdle /\ EncIdle /\ MermaidIdle /\ CliIdle

\* _add_formatted_text(para, line)
Tokenize ==
    /\ tk_pc = "start"
    /\ tk_runs' = add_formatted_text(tk_text)
    /\ tk_pc' = "done"
    /\ UNCHANGED <<tk_text, scanVars, apiVars, parserVars, encVars, mermaidVars, cliVars>>

InlineNext == Tokenize

SpecInline == InlineInit /\ [][InlineNext]_vars

Delimiter(emphasis) ==
    CASE emphasis = "bold"   -> <<"*", "*">>
      [] emphasis = "italic" -> <<"*">>
      [] emphasis = "code"   -> <<BQ>>
      [] OTHER               -> <<>>

\* The runs read in order, each emphasised run between its delimiters.
RECURSIVE Restored(_)
Restored(runs) ==
    IF runs = <<>> THEN <<>>
    ELSE Delimiter(runs[1].emphasis) \o runs[1].text \o Delimiter(runs[1].emphasis)
             \o Restored(Tail(runs))

\* C11 (as stated): the runs of a paragraph line, read in order with the
\* delimiters of each emphasised run restored, give back the line exactly, so
\* a delimiter outside a matched span stays literal in a plain run.
C11_RunsPartitionLine ==
    tk_pc = "done" => Restored(tk_runs) = tk_text

(***************************************************************************)
(* PlantUMLPreprocessor._encode64 (parser.py:118-141): bytes to a string   *)
(* over a 64-symbol alphabet, three bytes at a time.                       *)
(***************************************************************************)
MaxBytes == 4

alphabet ==
    <<"0", "1", "2", "3", "4", "5", "6", "7", "8", "9",
      "A", "B", "C", "D", "E", "F", "G", "H", "I", "J", "K", "L", "M",
      "N", "O", "P", "Q", "R", "S", "T", "U", "V", "W", "X", "Y", "Z",
      "a", "b", "c", "d", "e", "f", "g", "h", "i", "j", "k", "l", "m",
      "n", "o", "p", "q", "r", "s", "t", "u", "v", "w", "x", "y", "z",
      "-", "_">>

\* alphabet[n] of Python, indexed from 0
symbol(n) == alphabet[n + 1]

\* Bit operations on bytes: b >> k, b & (2^k - 1), b << k
shr(b, k) == b \div (2 ^ k)
low(b, k) == b % (2 ^ k)
shl(b, k) == b * (2 ^ k)

\* The two fields or-ed in lines 128, 129 and 134 never share a bit, so the
\* or is their sum.
bitor(hi, lo) == hi + lo

\* lines 125-130, with only the lowest bit of b1 kept in the second symbol
chunk3_drop_low_bits(b1, b2, b3) ==
    <<symbol(shr(b1, 2)),
      symbol(bitor(shl(low(b1, 1), 4), shr(b2, 4))),
      symbol(bitor(shl(low(b2, 4), 2), shr(b3, 6))),
      symbol(low(b3, 6))>>

\* lines 125-130: a chunk of three bytes
chunk3(b1, b2, b3) ==
    <<symbol(shr(b1, 2)),
      symbol(bitor(shl(low(b1, 2), 4), shr(b2, 4))),
      symbol(bitor(shl(low(b2, 4), 2), shr(b3, 6))),
      symbol(low(b3, 6))>>

\* lines 131-135 with the low four bits of b2 not shifted
chunk2_unshifted(b1, b2) ==
    <<symbol(shr(b1, 2)),
      symbol(bitor(shl(low(b1, 2), 4), shr(b2, 4))),
      symbol(low(b2, 4))>>

\* lines 131-135: a chunk of two bytes
chunk2(b1, b2) ==
    <<symbol(shr(b1, 2)),
      symbol(bitor(shl(low(b1, 2), 4), shr(b2, 4))),
      symbol(shl(low(b2, 4), 2))>>

\* lines 136-139: a chunk of one byte
chunk1(b1) ==
    <<symbol(shr(b1, 2)), symbol(shl(low(b1, 2), 4))>>

\* PlantUMLPreprocessor._encode64
RECURSIVE encode64(_)
encode64(data) ==
    IF Len(data) = 0 THEN <<>>
    ELSE IF Len(data) >= 3
    THEN chunk3(data[1], data[2], data[3]) \o encode64(DropFirst(data, 3))
    ELSE IF Len(data) = 2 THEN chunk2(data[1], data[2])
    ELSE chunk1(data[1])

\* Byte values: every bit of a byte set in one and clear in another, and the
\* ends of the range.
ByteValues == {0, 1, 2, 63, 64, 85, 170, 255}

ByteStrings == UNION {[1..n -> ByteValues] : n \in 0..MaxBytes}

EncInit ==
    /\ enc_data \in ByteStrings
    /\ enc_out = <<>>
    /\ enc_pc = "start"
    /\ ScanIdle /\ ApiIdle /\ ParserIdle /\ InlineIdle /\ MermaidIdle /\ CliIdle

\* _encode64(data)
Encode ==
    /\ enc_pc = "start"
    /\ enc_out' = encode64(enc_data)
    /\ enc_pc' = "done"
    /\ UNCHANGED <<enc_data, scanVars, apiVars, parserVars, inlineVars, mermaidVars, cliVars>>

EncNext == Encode

SpecEnc == EncInit /\ [][EncNext]_vars

\* The position of a character in the alphabet, from 0; 64 for a character
\* outside it.
value(ch) ==
    IF \E n \in 0..63 : symbol(n) = ch
    THEN CHOOSE n \in 0..63 : symbol(n) = ch
    ELSE 64

\* The bytes a string of symbols stands for: four symbols are three bytes, a
\* tail of three symbols two bytes, a tail of two symbols one byte.
RECURSIVE decode64(_)
decode64(str) ==
    IF Len(str) >= 4
    THEN LET v == [k \in 1..4 |-> value(str[k])]
         IN  <<v[1] * 4 + v[2] \div 16,
               (v[2] % 16) * 16 + v[3] \div 4,
               (v[3] % 4) * 64 + v[4]>> \o decode64(DropFirst(str, 4))
    ELSE IF Len(str) = 3
    THEN LET v == [k \in 1..3 |-> value(str[k])]
         IN  <<v[1] * 4 + v[2] \div 16, (v[2] % 16) * 16 + v[3] \div 4>>
    ELSE IF Len(str) = 2
    THEN <<value(str[1]) * 4 + value(str[2]) \div 16>>
    ELSE <<>>

\* C12: the encoding loses nothing: decoding the encoded string gives back
\* the bytes, so two different byte sequences never have the same encoding.
C12_Encode64Lossless ==
    enc_pc = "done" => decode64(enc_out) = enc_data

\* An input with a full chunk whose first byte has its second bit set has
\* been encoded.
C12_Witness ==
    /\ enc_pc = "done"
    /\ Len(enc_data) = 3
    /\ enc_data[1] = 170
    /\ Len(enc_out) = 4

(***************************************************************************)
(* MermaidPreprocessor._render_mermaid, _render_with_mmdc and              *)
(* _create_client_side_mermaid (parser.py:33-77).  The run of the external *)
(* tool mmdc and the file system calls are the environment: each ends in   *)
(* one of the ways subprocess.run and the file object can end.             *)
(***************************************************************************)
MaxCode == 3

\* str.replace(old, new) for a one-character old
RECURSIVE replace(_, _, _)
replace(s, old, new) ==
    IF s = <<>> THEN <<>>
    ELSE (IF s[1] = old THEN new ELSE <<s[1]>>) \o replace(Tail(s), old, new)

\* The first eight hexadecimal digits of the MD5 digest of the code, kept as
\* the value they are computed from.
diagram_id(code) == [md5 |-> code]

\* _create_client_side_mermaid (lines 73-77)
create_client_side_mermaid(code) ==
    [tag  |-> "pre",
     id   |-> diagram_id(code),
     body |-> replace(replace(code, "<", <<"&", "l", "t", ";">>),
                      ">", <<"&", "g", "t", ";">>)]

\* line 41
mermaid_diagram(svg) == [tag |-> "div", body |-> svg]

Returned(markup) == [kind |-> "markup", markup |-> markup]

Raised(exception) == [kind |-> "raised", exception |-> exception]

\* The exceptions line 42 catches: subprocess.SubprocessError, of which
\* TimeoutExpired is a subclass, and FileNotFoundError.
Caught == {"TimeoutExpired", "FileNotFoundError"}

\* How subprocess.run (lines 59-63) ends: the tool returns with an exit
\* status, is not found, is found but may not be executed, or runs out of
\* its 30 seconds.
ToolOutcomes ==
    {[outcome |-> "exit", returncode |-> rc, exception |-> "none"] : rc \in {0, 1}}
        \cup {[outcome |-> "raise", returncode |-> -1, exception |-> x]
                  : x \in {"FileNotFoundError", "PermissionError", "TimeoutExpired"}}

\* What the tool can have written to the output file
SvgContents == {<<>>, <<"<", "s", "v", "g", ">">>}

\* A character outside ASCII, such as an arrow or an accented letter
NONASCII == "NONASCII"

CodeChars == {"a", "<", ">", " ", NONASCII}

Codes == UNION {[1..n -> CodeChars] : n \in 0..MaxCode}

MermaidInit ==
    /\ mm_code \in Codes
    /\ mm_files = {}
    /\ mm_tool = [outcome |-> "none"]
    /\ mm_result = [kind |-> "none"]
    /\ mm_pc = "start"
    /\ ScanIdle /\ ApiIdle /\ ParserIdle /\ InlineIdle /\ EncIdle /\ CliIdle

notMermaid == <<scanVars, apiVars, parserVars, inlineVars, encVars, cliVars>>

\* lines 35 and 50-54: the code is stripped and written to a new temporary
\* file, which is kept when it is closed (delete=False).  The file is opened
\* in the encoding of the locale, which may be UTF-8 or an encoding without
\* the characters outside ASCII (ascii, cp1252): the write of such a
\* character then raises UnicodeEncodeError, which leaves _render_with_mmdc
\* before its try statement and which _render_mermaid does not catch.
WriteInput ==
    /\ mm_pc = "start"
    /\ mm_code' = strip(mm_code)
    /\ mm_files' = {"input"}
    /\ \E encodable \in BOOLEAN :
        IF encodable \/ ~contains(mm_code, NONASCII)
        THEN mm_pc' = "run" /\ UNCHANGED mm_result
        ELSE mm_pc' = "done" /\ mm_result' = Raised("UnicodeEncodeError")
    /\ UNCHANGED <<mm_tool, notMermaid>>

\* lines 59-63: mmdc runs; it may or may not leave an output file
RunMmdc ==
    /\ mm_pc = "run"
    /\ \E t \in ToolOutcomes, wrote \in BOOLEAN :
        /\ t.exception \in {"FileNotFoundError", "PermissionError"} => ~wrote
        /\ mm_tool' = t
        /\ mm_files' = IF wrote THEN mm_files \cup {"output"} ELSE mm_files
    /\ mm_pc' = "ran"
    /\ UNCHANGED <<mm_code, mm_result, notMermaid>>

\* lines 64-71 and 38-46: the output file is read when the tool succeeded and
\* the file exists; the finally clause removes both files; _render_mermaid
\* wraps a non-empty SVG, passes on an exception it does not catch, and in
\* every other case falls back to the client-side markup.
FinishMmdc ==
    /\ mm_pc = "ran"
    /\ mm_files' = (mm_files \ {"input"}) \ {"output"}
    /\ IF mm_tool.outcome = "raise"
       THEN mm_result' = IF mm_tool.exception \in Caught
                         THEN Returned(create_client_side_mermaid(mm_code))
                         ELSE Raised(mm_tool.exception)
       ELSE IF mm_tool.returncode = 0 /\ "output" \in mm_files
       THEN \E svg \in SvgContents :
                mm_result' = IF svg # <<>>
                             THEN Returned(mermaid_diagram(svg))
                             ELSE Returned(create_client_side_mermaid(mm_code))
       ELSE mm_result' = Returned(create_client_side_mermaid(mm_code))
    /\ mm_pc' = "done"
    /\ UNCHANGED <<mm_code, mm_tool, notMermaid>>

MermaidNext == WriteInput \/ RunMmdc \/ FinishMmdc

SpecMermaid == MermaidInit /\ [][MermaidNext]_vars

\* The code with every '<' and '>' written as an entity
RECURSIVE Escaped(_)
Escaped(code) ==
    IF code = <<>> THEN <<>>
    ELSE (CASE code[1] = "<" -> <<"&", "l", "t", ";">>
            [] code[1] = ">" -> <<"&", "g", "t", ";">>
            [] OTHER         -> <<code[1]>>) \o Escaped(Tail(code))

IsPlaceholder(r) ==
    /\ r.kind = "markup"
    /\ r.markup.tag = "pre"
    /\ r.markup.body = Escaped(mm_code)

IsSvgContainer(r) == r.kind = "markup" /\ r.markup.tag = "div"

ToolSucceeded ==
    /\ mm_tool.outcome = "exit"
    /\ mm_tool.returncode = 0

\* C13 (as stated): resolving a mermaid block never raises and always
\* returns markup; that markup is the placeholder holding the escaped source
\* unless the tool succeeded, and the SVG container only when it did.
C13_MermaidNeverRaises ==
    mm_pc = "done" =>
        /\ IsPlaceholder(mm_result) \/ IsSvgContainer(mm_result)
        /\ IsSvgContainer(mm_result) => ToolSucceeded

\* C14 (as stated): once _render_with_mmdc has finished, by a return or by
\* any exception, neither temporary file exists.
C14_TempFilesRemoved ==
    mm_pc = "done" => mm_files = {}

(***************************************************************************)
(* The spreadsheet of a well-formed table (SpecScan).                      *)
(***************************************************************************)
\* The positions of the '|' characters of a line, in order
Pipes(line) ==
    LET P == {k \in 1..Len(line) : line[k] = "|"}
    IN  SortedSeq(P)

\* A line that, white space at its ends aside, starts and ends with '|'
Framed(line) ==
    LET t == strip(line)
    IN  Len(t) >= 2 /\ t[1] = "|" /\ t[Len(t)] = "|"

CellCount(line) == Len(Pipes(line)) - 1

\* The text between the j-th and the next '|', without the white space at
\* its ends
CellText(line, j) ==
    strip(SubSeq(line, Pipes(line)[j] + 1, Pipes(line)[j + 1] - 1))

\* The input is one table: a header line, a separator line and body lines,
\* every header and body line framed by '|' and with the same number of cells
WellFormedTableInput ==
    /\ NLines >= 2
    /\ SeparatorLine(lines[2])
    /\ Framed(lines[2])
    /\ \A k \in (1..NLines) \ {2} :
        /\ Framed(lines[k])
        /\ ~SeparatorLine(lines[k])
        /\ CellCount(lines[k]) = CellCount(lines[1])

\* The source line of row r of that table
TableSourceLine(r) == IF r = 1 THEN 1 ELSE r + 1

\* C15: for an input that is one well-formed table of a header, a separator
\* and n body lines of c cells each, the spreadsheet has exactly one table of
\* n + 1 rows and c columns whose cells are the trimmed cell texts in source
\* order; every header cell is bold and centred and no body cell is.
C15_WellFormedTableSheet ==
    (pc = "done" /\ WellFormedTableInput) =>
        LET n == NLines - 2
            c == CellCount(lines[1])
        IN  /\ Len(tables) = 1
            /\ Len(tables[1]) = n + 1
            /\ DOMAIN ws.cells = (1..(n + 1)) \X (1..c)
            /\ \A r \in 1..(n + 1), k \in 1..c :
                /\ ws.cells[<<r, k>>].value = CellText(lines[TableSourceLine(r)], k)
                /\ ws.cells[<<r, k>>].bold = (r = 1)
                /\ (ws.cells[<<r, k>>].horizontal = "center") = (r = 1)

\* The sheet of a header of two cells, a separator and two body lines
C15_Witness ==
    /\ pc = "done"
    /\ WellFormedTableInput
    /\ NLines = 4
    /\ CellCount(lines[1]) = 2
    /\ ws.cells[<<3, 2>>].value = <<"b">>

(***************************************************************************)
(* The scanners on documents of block lines: headings of every level,      *)
(* rules, quotes, list items, paragraphs, and lines that look like them.   *)
(***************************************************************************)
MaxBlockLines == 2

Hashes(k) == [n \in 1..k |-> "#"]

BlockLines ==
    {Hashes(k) \o <<" ", "a">> : k \in 1..7}
        \cup {<<"#", "a">>, <<"#", " ">>, <<"#", " ", " ", "a", " ">>,
              <<" ", "#", " ", "a">>, <<"#", " ", "a", "|", "b">>,
              <<"-", "-", "-">>, <<"*", "*", "*">>, <<"-", "-">>, <<"-", " ", "-", "-">>,
              <<">", " ", "q">>, <<"-", " ", "x">>, <<"*", "x", "*">>,
              <<"1", ".", " ", "x">>, <<"1", ".", "x">>, <<"x">>, <<" ">>,
              FENCE, <<"|", "a", "|">>}

BlockDocuments == UNION {[1..n -> BlockLines] : n \in 1..MaxBlockLines}

BlocksInit ==
    /\ lines \in BlockDocuments
    /\ i = 1
    /\ in_code_block = FALSE
    /\ code_block_content = <<>>
    /\ in_table = FALSE
    /\ table_rows = <<>>
    /\ doc = <<>>
    /\ pc = "docx"
    /\ ex_i = 1
    /\ ex_in_table = FALSE
    /\ current_table = <<>>
    /\ tables = <<>>
    /\ ws = EmptySheet
    /\ ApiIdle
    /\ ParserIdle
    /\ ExtIdle

SpecBlocks == BlocksInit /\ [][ScanNext]_vars

\* The flow-document scanner is about to read line i outside code and table
\* modes, and the line neither is a fence nor holds a '|'.
AtBlockLine ==
    /\ pc = "docx"
    /\ i <= NLines
    /\ ~in_code_block
    /\ ~in_table
    /\ ~FenceLine(lines[i])
    /\ ~PipeLine(i)

LeadingHashes(l) == LeadCount(l, {"#"})

\* The line after its leading '#' characters and the white space after them
HeadingText(l) ==
    LET rest == DropFirst(l, LeadingHashes(l))
    IN  DropFirst(rest, LeadCount(rest, Whitespace))

\* k '#' characters, white space, text
HeadingShape(l, k) ==
    /\ LeadingHashes(l) = k
    /\ LeadCount(DropFirst(l, k), Whitespace) >= 1
    /\ HeadingText(l) # <<>>

HeadingNodes == {k \in 1..Len(doc) : doc[k].kind = "heading"}

\* the scanner adds exactly one node, a heading of level k holding the text
AddsHeading ==
    /\ Len(doc') = Len(doc) + 1
    /\ SubSeq(doc', 1, Len(doc)) = doc
    /\ doc'[Len(doc')].kind = "heading"
    /\ doc'[Len(doc')].level = LeadingHashes(lines[i])
    /\ doc'[Len(doc')].text = HeadingText(lines[i])

\* C16: a line read outside code and table modes that is k '#' (1 <= k <= 6),
\* white space and text adds exactly one heading node, of level k and with
\* the text after the white space; every heading node has a level in 1..6,
\* and a line with seven or more leading '#' adds no heading.
C16_HeadingLevels ==
    /\ [][(AtBlockLine /\ \E k \in 1..6 : HeadingShape(lines[i], k)) => AddsHeading]_vars
    /\ [](\A n \in HeadingNodes :
              /\ doc[n].level \in 1..6
              /\ \A m \in 1..Len(doc[n].src) : LeadingHashes(lines[doc[n].src[m]]) <= 6)

\* A heading of level 6 was added, and a line of seven '#' gave a paragraph.
C16_Witness ==
    /\ pc = "done"
    /\ NLines = 2
    /\ HeadingShape(lines[1], 6)
    /\ HeadingShape(lines[2], 7)
    /\ Len(doc) = 2
    /\ doc[1].kind = "heading" /\ doc[1].level = 6
    /\ doc[2].kind = "paragraph"

(***************************************************************************)
(* The order of the classification rules (SpecBlocks).                     *)
(***************************************************************************)
\* The rule that handles line i, the first of the ordered rules that applies
RuleOf(l, in_code, in_tbl) ==
    IF FenceLine(l) THEN "fence"
    ELSE IF in_code THEN "code"
    ELSE IF contains(l, "|") \/ in_tbl THEN "table"
    ELSE IF heading_match(l).ok THEN "heading"
    ELSE IF is_rule(l) THEN "rule"
    ELSE IF is_quote(l) THEN "quote"
    ELSE IF list_match(l).ok THEN "bullet"
    ELSE IF ordered_match(l).ok THEN "number"
    ELSE IF ~BlankLine(l) THEN "paragraph"
    ELSE "blank"

BlockKinds == {"heading", "rule", "quote", "bullet", "number", "paragraph"}

\* What the scanner does with the line, read off the change of its state
Handled(rule) ==
    CASE rule = "fence" ->
            /\ in_code_block' # in_code_block
            /\ i' = i + 1
            /\ \A n \in (Len(doc) + 1)..Len(doc') : doc'[n].kind = "code"
      [] rule = "code" ->
            /\ Len(code_block_content') = Len(code_block_content) + 1
            /\ code_block_content'[Len(code_block_content')].line = i
            /\ doc' = doc
            /\ i' = i + 1
      [] rule = "table" ->
            /\ \A n \in (Len(doc) + 1)..Len(doc') : doc'[n].kind = "table"
            /\ IF PipeLine(i) THEN in_table' /\ i' = i + 1 ELSE ~in_table' /\ i' = i
      [] rule = "blank" ->
            /\ doc' = doc
            /\ i' = i + 1
      [] OTHER ->
            /\ Len(doc') = Len(doc) + 1
            /\ SubSeq(doc', 1, Len(doc)) = doc
            /\ doc'[Len(doc')].kind = rule
            /\ doc'[Len(doc')].src = <<i>>
            /\ i' = i + 1

\* Three or more '-', '*' or '_' and nothing else but white space at the ends
RuleShape(l) ==
    /\ Len(strip(l)) >= 3
    /\ \A k \in 1..Len(strip(l)) : strip(l)[k] \in {"-", "*", "_"}

\* C19: every line is handled by the first rule that applies, in the order
\* fence, in-code, table, heading, rule, quote, bullet, ordered, paragraph,
\* blank; a line holding '|' never becomes a heading, quote, list item or
\* paragraph, and a line of three or more '-', '*' or '_' outside code
\* becomes a rule, never a bullet item.
C19_ClassificationOrder ==
    /\ [][(pc = "docx" /\ i <= NLines)
              => Handled(RuleOf(lines[i], in_code_block, in_table))]_vars
    /\ [](\A n \in 1..Len(doc) :
              doc[n].kind \in BlockKinds =>
                  /\ ~PipeLine(doc[n].src[1])
                  /\ RuleShape(lines[doc[n].src[1]]) => doc[n].kind = "rule")

\* A line of three '*' became a rule and a line "- --" a bullet item
C19_Witness ==
    /\ pc = "done"
    /\ NLines = 2
    /\ lines[1] = <<"*", "*", "*">>
    /\ lines[2] = <<"-", " ", "-", "-">>
    /\ Len(doc) = 2
    /\ doc[1].kind = "rule"
    /\ doc[2].kind = "bullet"

(***************************************************************************)
(* The order of the nodes of the flow document (SpecScan).                 *)
(***************************************************************************)
\* The nodes built from at least one source line
SourcedNodes == {n \in 1..Len(doc) : doc[n].src # <<>>}

FirstLine(n) == doc[n].src[1]

LastLine(n) == doc[n].src[Len(doc[n].src)]

\* C20 (as stated): the nodes of the flow document are in the order of the
\* source lines: a node whose last source line comes before the first source
\* line of another node was added before it.
C20_NodesInSourceOrder ==
    \A x \in SourcedNodes, y \in SourcedNodes :
        LastLine(x) < FirstLine(y) => x < y

(***************************************************************************)
(* The command line (cli.py:13-139): main dispatches to render_file or to  *)
(* start_server, which serves the routes of create_app.  Reading the       *)
(* input, rendering and writing the output are the steps of render_file;   *)
(* each of them may raise.                                                 *)
(***************************************************************************)
RenderArgs ==
    [command : {"render"}, format : Formats, input_exists : BOOLEAN,
     output_before : {"absent", "old"}]

CliArgs ==
    RenderArgs \cup
        {[command |-> c, format |-> "html", input_exists |-> FALSE, output_before |-> "absent"]
             : c \in {"server", "none"}}

MissingInput == <<"Error: Input file does not exist">>
Traceback(e) == <<"Traceback (most recent call last)", e>>
RenderingError(e) == <<"Error rendering file", e>>
Success == <<"Successfully rendered to", "output_path">>

\* The process ends with the status; an exception nobody catches ends it with
\* status 1 after the interpreter printed the traceback to the error stream.
Exit(status) == cli_exit' = status /\ cli_pc' = "exited"

\* The output file when rendering raised, had it been opened for writing
\* before the document was rendered
file_opened_before_render(before) == "partial"

\* The output file when rendering raised: every branch of lines 91-124 writes
\* it after the render call returned, so it is as it was
file_after_render_raised(before) == before

\* lines 128-130 without the sys.exit(1)
render_except_no_exit(e) == [stderr |-> RenderingError(e), exit |-> 0]

\* lines 128-130: the except clause of render_file
render_except(e) == [stderr |-> RenderingError(e), exit |-> 1]

CliInit ==
    /\ cli_args \in CliArgs
    /\ cli_out = cli_args.output_before
    /\ cli_exit = -1
    /\ cli_stdout = <<>>
    /\ cli_stderr = <<>>
    /\ cli_raised = "none"
    /\ cli_pc = "main"
    /\ ScanIdle /\ ApiIdle /\ ParserIdle /\ InlineIdle /\ EncIdle /\ MermaidIdle

notCli == <<scanVars, apiVars, parserVars, inlineVars, encVars, mermaidVars>>

\* cli.py:56-63: no command was given
main_help ==
    /\ cli_pc = "main"
    /\ cli_args.command = "none"
    /\ cli_stdout' = Append(cli_stdout, <<"usage">>)
    /\ Exit(1)
    /\ UNCHANGED <<cli_args, cli_out, cli_stderr, cli_raised, notCli>>

\* cli.py:133-139
start_server ==
    /\ cli_pc = "main"
    /\ cli_args.command = "server"
    /\ cli_stdout' = Append(cli_stdout, <<"Starting MarkdownRender server">>)
    /\ cli_pc' = "serving"
    /\ UNCHANGED <<cli_args, cli_out, cli_exit, cli_stderr, cli_raised, notCli>>

\* cli.py:66-72: render_file starts; a missing input file ends the process
render_file_check ==
    /\ cli_pc = "main"
    /\ cli_args.command = "render"
    /\ IF cli_args.input_exists
       THEN cli_pc' = "read" /\ UNCHANGED <<cli_exit, cli_stderr>>
       ELSE cli_stderr' = Append(cli_stderr, MissingInput) /\ Exit(1)
    /\ UNCHANGED <<cli_args, cli_out, cli_stdout, cli_raised, notCli>>

\* cli.py:75: input_path.read_text(encoding="utf-8"), before the try
\* statement: the file may be a directory, unreadable or not UTF-8
render_file_read ==
    /\ cli_pc = "read"
    /\ \E e \in {"none", "UnicodeDecodeError", "PermissionError"} :
        IF e = "none"
        THEN cli_pc' = "render" /\ UNCHANGED <<cli_exit, cli_stderr, cli_raised>>
        ELSE /\ cli_raised' = "read"
             /\ cli_stderr' = Append(cli_stderr, Traceback(e))
             /\ Exit(1)
    /\ UNCHANGED <<cli_args, cli_out, cli_stdout, notCli>>

\* cli.py:77-124: the output path, the title, the parser and the renderer are
\* made and the document is rendered (renderer.render, or the render call
\* that opens render_to_file)
render_file_render ==
    /\ cli_pc = "render"
    /\ \E raises \in BOOLEAN :
        IF raises
        THEN /\ cli_raised' = "render"
             /\ cli_out' = file_after_render_raised(cli_out)
             /\ cli_stderr' = Append(cli_stderr, render_except("Exception").stderr)
             /\ Exit(render_except("Exception").exit)
        ELSE cli_pc' = "write" /\ UNCHANGED <<cli_out, cli_exit, cli_stderr, cli_raised>>
    /\ UNCHANGED <<cli_args, cli_stdout, notCli>>

\* cli.py:99, renderers.py:217, 255, 476, then cli.py:126: the
\* rendered document is written and the success line printed; a write that
\* raises may have created or emptied the file
render_file_write ==
    /\ cli_pc = "write"
    /\ \E left \in {"written", "untouched", "partial"} :
        IF left = "written"
        THEN /\ cli_out' = cli_args.format
             /\ cli_stdout' = Append(cli_stdout, Success)
             /\ Exit(0)
             /\ UNCHANGED <<cli_stderr, cli_raised>>
        ELSE /\ cli_out' = IF left = "partial" THEN "partial" ELSE cli_out
             /\ cli_raised' = "write"
             /\ cli_stderr' = Append(cli_stderr, render_except("OSError").stderr)
             /\ Exit(render_except("OSError").exit)
             /\ UNCHANGED cli_stdout
    /\ UNCHANGED <<cli_args, notCli>>

\* app.run: the server answers requests
serve == cli_pc = "serving" /\ ApiNext

CliNext ==
    \/ main_help
    \/ start_server
    \/ render_file_check
    \/ render_file_read
    \/ render_file_render
    \/ render_file_write
    \/ serve

SpecCli == CliInit /\ [][CliNext]_vars

RenderExited == cli_pc = "exited" /\ cli_args.command = "render"

Printed(stream, line) == \E k \in 1..Len(stream) : stream[k] = line

ExitsOne == cli_exit = 1 /\ cli_stderr # <<>>

ExitsZero == cli_exit = 0 /\ Printed(cli_stdout, Success)

RenderFailure == cli_raised \in {"render", "write"}

\* C17 (as stated): the render command exits 1 with a message on the error
\* stream when the input file is missing or rendering raises, and otherwise
\* exits 0 after printing the output path; the success line is never printed
\* after a failed render.
C17_ExitCodes ==
    RenderExited =>
        /\ IF ~cli_args.input_exists \/ RenderFailure THEN ExitsOne ELSE ExitsZero
        /\ RenderFailure => ~Printed(cli_stdout, Success)

\* C17 (amended): the render command exits 1 with a message on the error
\* stream when the input file is missing, when reading it raises, or when
\* rendering raises, and otherwise exits 0 after printing the output path;
\* the success line is never printed after a failed render.
C17_ExitCodesWithReadFailure ==
    RenderExited =>
        /\ IF ~cli_args.input_exists \/ cli_raised = "read" \/ RenderFailure
           THEN ExitsOne
           ELSE ExitsZero
        /\ RenderFailure => ~Printed(cli_stdout, Success)

\* The input exists but cannot be read: the process ended with status 1
C17_Witness ==
    /\ RenderExited
    /\ cli_args.input_exists
    /\ cli_raised = "read"
    /\ cli_exit = 1

\* C18: rendering is all or nothing: the command line writes the output file
\* only once the document is rendered, so a render that raised leaves the
\* output file as it was, absent or with its old content; and a response of
\* the API with status 400 or 500 carries no document.
C18_AllOrNothing ==
    /\ [][cli_out' # cli_out => cli_pc = "write"]_vars
    /\ [](/\ cli_raised = "render" => cli_out = cli_args.output_before
          /\ (resp # None /\ resp.status \in {400, 500}) => resp.document = "")

\* Rendering raised where an output file of an earlier run existed
C18_Witness ==
    /\ RenderExited
    /\ cli_raised = "render"
    /\ cli_args.output_before = "old"
    /\ cli_out = "old"
    /\ cli_exit = 1

(***************************************************************************)
(* The line that closes a table (SpecBlocks).                              *)
(***************************************************************************)
\* The flow-document scanner is about to read line i, which holds no '|',
\* while it accumulates a table.
AtTableClosingLine ==
    /\ pc = "docx"
    /\ i <= NLines
    /\ in_table
    /\ ~PipeLine(i)

\* The nodes of the document built from line j
NodesOfLine(j) ==
    SelectSeq(doc, LAMBDA n : \E m \in 1..Len(n.src) : n.src[m] = j)

\* Line j holds no '|' and follows a line with '|', both outside code fences
ClosesTable(j) ==
    /\ j \in 2..NLines
    /\ ~PipeLine(j)
    /\ ~FenceLine(lines[j])
    /\ PipeLine(j - 1)
    /\ ~InsideFence(j)

\* C21 (as stated): a line without '|' that arrives while a table is
\* accumulated makes the scanner add the buffered table and leave table mode
\* without consuming the line; the line is then classified by the remaining
\* rules, so the document holds for it exactly the node the line gives when
\* no table precedes it, and the line is in no table.
C21_TableClosingLine ==
    /\ [][AtTableClosingLine =>
              /\ \A m \in 1..Len(table_rows) : table_rows[m].line \in TableNodeLines'
              /\ ~in_table'
              /\ table_rows' = <<>>
              /\ i' = i]_vars
    /\ [](pc \in {"xlsx", "sheet", "done"} =>
              \A j \in 1..NLines :
                  ClosesTable(j) =>
                      /\ NodesOfLine(j) = block_nodes(lines[j], j)
                      /\ j \notin TableNodeLines)

(***************************************************************************)
(* The first span of a paragraph line (SpecInline).                        *)
(***************************************************************************)
IsDelimiter(ch) == ch \in {"*", BQ}

HasDelimiter(t) == \E k \in 1..Len(t) : IsDelimiter(t[k])

\* The text up to the first '*' or backquote
PlainPrefix(t) == SubSeq(t, 1, LeadCount(t, {t[k] : k \in 1..Len(t)} \ {"*", BQ}))

\* The text from the first '*' or backquote on
FromFirstDelimiter(t) == DropFirst(t, Len(PlainPrefix(t)))

\* The delimiter the text opens with: "**" before "*" before the backquote
OpeningDelimiter(r) ==
    IF startswith(r, <<"*", "*">>) THEN <<"*", "*">>
    ELSE IF startswith(r, <<"*">>) THEN <<"*">>
    ELSE <<BQ>>

\* The characters after the opening delimiter up to the next character of
\* the delimiter
SpanText(r) ==
    LET d     == OpeningDelimiter(r)
        inner == DropFirst(r, Len(d))
    IN  SubSeq(inner, 1, LeadCount(inner, {inner[k] : k \in 1..Len(inner)} \ {d[1]}))

\* The text after the span
AfterSpan(r) == DropFirst(r, 2 * Len(OpeningDelimiter(r)) + Len(SpanText(r)))

\* The line has a span at its first delimiter: the delimiter, a text without
\* the delimiter's character, the delimiter again
SpanAtFirstDelimiter(t) ==
    /\ HasDelimiter(t)
    /\ LET r == FromFirstDelimiter(t)
           d == OpeningDelimiter(r)
       IN  /\ SpanText(r) # <<>>
           /\ startswith(DropFirst(r, Len(d) + Len(SpanText(r))), d)

EmphasisOf(d) ==
    IF d = <<"*", "*">> THEN "bold" ELSE IF d = <<"*">> THEN "italic" ELSE "code"

\* C22: bold is matched before italic before code, and spans do not nest: a
\* span at the first delimiter of a line gives, after the plain run of the
\* text before it, exactly one run of the span's emphasis ('**x**' a bold
\* run, never an italic one) whose text is the text between the delimiters
\* as it is, other delimiters in it included; when no delimiter follows the
\* span the only other run is the plain text after it.
C22_SpansDoNotNest ==
    (tk_pc = "done" /\ SpanAtFirstDelimiter(tk_text)) =>
        LET r == FromFirstDelimiter(tk_text)
        IN  /\ Len(tk_runs) >= 3
            /\ tk_runs[1] = [text |-> PlainPrefix(tk_text), emphasis |-> "none"]
            /\ tk_runs[2] = [text |-> SpanText(r), emphasis |-> EmphasisOf(OpeningDelimiter(r))]
            /\ ~HasDelimiter(AfterSpan(r)) =>
                   tk_runs = <<tk_runs[1], tk_runs[2],
                               [text |-> AfterSpan(r), emphasis |-> "none"]>>

\* A bold span holding a code span was tokenized
C22_Witness ==
    /\ tk_pc = "done"
    /\ tk_text = <<"*", "*", BQ, "a", BQ, "*", "*">>
    /\ Len(tk_runs) = 3
    /\ tk_runs[2] = [text |-> <<BQ, "a", BQ>>, emphasis |-> "bold"]

(***************************************************************************)
(* The bit layout of _encode64 (SpecEnc).                                  *)
(***************************************************************************)
\* Byte k of the data, 0 past its end
ByteOrZero(data, k) == IF k <= Len(data) THEN data[k] ELSE 0

\* The 24 bits of group g (from 0) of the data, read as one number
GroupBits(data, g) ==
    ByteOrZero(data, 3 * g + 1) * 65536 + ByteOrZero(data, 3 * g + 2) * 256
        + ByteOrZero(data, 3 * g + 3)

\* The j-th (from 1) six bits of group g, from the top
Sextet(data, g, j) == (GroupBits(data, g) \div (64 ^ (4 - j))) % 64

\* The number of symbols of n bytes
EncodedLength(n) ==
    4 * (n \div 3) + (CASE n % 3 = 0 -> 0 [] n % 3 = 1 -> 2 [] n % 3 = 2 -> 3)

\* C23: the output has 4 symbols for every full group of three bytes, 3 for
\* a remainder of two bytes and 2 for a remainder of one; symbol j of a group
\* is the alphabet character of the j-th six bits of the group's 24 bits,
\* the bytes missing from a remainder taken as 0; every index is in 0..63.
C23_BitLayout ==
    enc_pc = "done" =>
        /\ Len(enc_out) = EncodedLength(Len(enc_data))
        /\ \A k \in 1..Len(enc_out) :
            /\ value(enc_out[k]) \in 0..63
            /\ value(enc_out[k]) = Sextet(enc_data, (k - 1) \div 4, ((k - 1) % 4) + 1)

\* A full group followed by a remainder of one byte was encoded
C23_Witness ==
    /\ enc_pc = "done"
    /\ Len(enc_data) = 4
    /\ enc_data[4] = 255
    /\ Len(enc_out) = 6
    /\ enc_out[6] = "m"

(***************************************************************************)
(* The rows of the tables in the sheet (SpecScan).                         *)
(***************************************************************************)
\* The rows the first k extracted tables take, each with the 2 rows after it
RECURSIVE RowsBefore(_)
RowsBefore(k) == IF k = 0 THEN 0 ELSE RowsBefore(k - 1) + Len(tables[k]) + 2

FirstRow(k) == 1 + RowsBefore(k - 1)

LastRow(k) == FirstRow(k) + Len(tables[k]) - 1

\* The rows of the sheet that hold a cell
UsedRows == {p[1] : p \in DOMAIN ws.cells}

\* C24: the extracted tables are written in extraction order from row 1:
\* table k takes the rows from 1 + the sum over the earlier tables of (row
\* count + 2), its cells in order; no row belongs to two tables, and the 2
\* rows between the last row of a table and the first of the next are empty.
C24_TablesTwoRowsApart ==
    (pc = "done" /\ tables # <<>>) =>
        /\ FirstRow(1) = 1
        /\ \A k \in 1..Len(tables) :
            \A r \in 1..Len(tables[k]) :
                \A c \in 1..Len(tables[k][r].cells) :
                    /\ <<FirstRow(k) + r - 1, c>> \in DOMAIN ws.cells
                    /\ ws.cells[<<FirstRow(k) + r - 1, c>>].value = tables[k][r].cells[c]
        /\ UsedRows = UNION {FirstRow(k)..LastRow(k) : k \in 1..Len(tables)}
        /\ \A k \in 1..(Len(tables) - 1) :
            /\ FirstRow(k + 1) = LastRow(k) + 3
            /\ {LastRow(k) + 1, LastRow(k) + 2} \cap UsedRows = {}

\* Two tables, the first of two rows: the second starts at row 5
C24_Witness ==
    /\ pc = "done"
    /\ Len(tables) = 2
    /\ Len(tables[1]) = 2
    /\ <<5, 1>> \in DOMAIN ws.cells
    /\ <<3, 1>> \notin DOMAIN ws.cells

(***************************************************************************)
(* The sheet of an input without tables (SpecScan).                        *)
(***************************************************************************)
TitleCell == [value |-> Title, bold |-> TRUE, size |-> 14, horizontal |-> "general"]

\* The sheet holds the title in row 1, nothing in row 2, and the lines of
\* content one per row in column 1 from row 3
FallbackLayout(content) ==
    /\ DOMAIN ws.cells = {<<1, 1>>} \cup {<<k + 2, 1>> : k \in 1..Len(content)}
    /\ ws.cells[<<1, 1>>] = TitleCell
    /\ \A k \in 1..Len(content) : ws.cells[<<k + 2, 1>>].value = content[k]

\* No cell of the sheet is a title cell, and every cell holds a cell of an
\* extracted table
OnlyTableCells ==
    \A p \in DOMAIN ws.cells :
        /\ ws.cells[p].size # 14
        /\ \E k \in 1..Len(tables) : \E r \in 1..Len(tables[k]) :
               \E c \in 1..Len(tables[k][r].cells) :
                   ws.cells[p].value = tables[k][r].cells[c]

\* The lines of the input that are not blank
InkedLines == {k \in 1..NLines : ~BlankLine(lines[k])}

\* The lines of the input text once the white space at its two ends is
\* removed: from the first line that is not blank, without the white space
\* it starts with, to the last, without the white space it ends with; one
\* empty line when every line is blank
TrimmedInput ==
    IF InkedLines = {} THEN << <<>> >>
    ELSE LET a == CHOOSE x \in InkedLines : \A y \in InkedLines : x <= y
             b == CHOOSE x \in InkedLines : \A y \in InkedLines : y <= x
         IN  [k \in 1..(b - a + 1) |->
                 LET l  == lines[a + k - 1]
                     l1 == IF k = 1 THEN DropFirst(l, LeadCount(l, Whitespace)) ELSE l
                 IN  IF k = b - a + 1 THEN rstrip(l1) ELSE l1]

\* C25 (as stated): the sheet has the fallback layout exactly when no table
\* was extracted: the title in row 1 column 1, bold and of size 14, row 2
\* empty, the input lines one per row in column 1 from row 3 in source
\* order; with a table extracted, no title cell and no raw line is written.
C25_FallbackLayout ==
    pc = "done" =>
        IF tables = <<>> THEN FallbackLayout(lines) ELSE OnlyTableCells

\* C25 (amended): as stated, with the lines written from row 3 being those
\* of the input text without the white space at its two ends.
C25_FallbackLayoutOfTrimmedInput ==
    pc = "done" =>
        IF tables = <<>> THEN FallbackLayout(TrimmedInput) ELSE OnlyTableCells

\* An input with a '|' line that gives no row, after a blank line: the
\* fallback layout, the '|' line in row 3
C25_Witness ==
    /\ pc = "done"
    /\ tables = <<>>
    /\ NLines = 3
    /\ BlankLine(lines[1])
    /\ PipeLine(2)
    /\ ws.cells[<<1, 1>>] = TitleCell
    /\ ws.cells[<<3, 1>>].value = lines[2]
    /\ ws.cells[<<4, 1>>].value = lines[3]

(***************************************************************************)
(* The tables of the two scanners (SpecScan).                              *)
(***************************************************************************)
\* The cells of the rows of the tables, without the source lines
CellsOfTables(tbls) ==
    [k \in 1..Len(tbls) |-> [m \in 1..Len(tbls[k]) |-> tbls[k][m].cells]]

\* The source lines of the rows the spreadsheet extractor put in a table
ExtractedLines ==
    UNION {{tables[k][m].line : m \in 1..Len(tables[k])} : k \in 1..Len(tables)}

\* C26 (as stated): for every input the tables the spreadsheet extractor
\* returns are the tables the flow-document scanner adds, with the same
\* rows and cells in the same order; no line inside a code fence gives a row
\* of a spreadsheet table.
C26_SameTablesBothScanners ==
    pc = "done" =>
        /\ CellsOfTables(tables) = CellsOfTables(WordTableRows)
        /\ \A j \in ExtractedLines : ~InsideFence(j)

(***************************************************************************)
(* Termination of the flow-document scanner.  The renderer is one          *)
(* sequential call: whenever a step of it can be taken, it is taken.       *)
(***************************************************************************)
MaxScanLines == 3

TermLines == {L_row, L_text, L_blank, L_fence}

TermInit ==
    /\ lines \in UNION {[1..n -> TermLines] : n \in 1..MaxScanLines}
    /\ i = 1
    /\ in_code_block = FALSE
    /\ code_block_content = <<>>
    /\ in_table = FALSE
    /\ table_rows = <<>>
    /\ doc = <<>>
    /\ pc = "docx"
    /\ ex_i = 1
    /\ ex_in_table = FALSE
    /\ current_table = <<>>
    /\ tables = <<>>
    /\ ws = EmptySheet
    /\ ApiIdle
    /\ ParserIdle
    /\ ExtIdle

WordLoop == FenceStep \/ CodeStep \/ TableRowStep \/ TableEndStep \/ BlockStep \/ WordFinish

SpecScanFair == TermInit /\ [][ScanNext]_vars /\ WF_vars(WordLoop)

\* C27: the loop of the flow-document scanner ends on every input: the line
\* index never decreases; an iteration that leaves it unchanged is the one
\* that closes a table, and it leaves table mode, from where every iteration
\* advances the index, so no line is examined more than twice; and in the
\* end the loop is left with the index past the last line (the model counts
\* lines from 1, so the code's i = len(lines) is i = NLines + 1 here).
C27_ScannerTerminates ==
    /\ [][i' >= i]_vars
    /\ [][(InLoop /\ i' = i) => (in_table /\ ~in_table')]_vars
    /\ [][(InLoop /\ ~in_table) => i' = i + 1]_vars
    /\ <>(pc # "docx" /\ i = NLines + 1)

\* The loop was left after it closed a table at a line it then read again
C27_Witness ==
    /\ pc = "done"
    /\ NLines = 3
    /\ i = 4
    /\ PipeLine(1)
    /\ lines[2] = L_text
    /\ Len(doc) >= 2
    /\ doc[1].kind = "table"
    /\ doc[2].kind = "paragraph"

====
